---- MODULE Spec2Model ----
(***************************************************************************)
(* Model of nixops/resources/vpc.py: the VPC resource state (VPCState),    *)
(* its create / destroy operations, the change handlers realize_*, the     *)
(* waiters, and the EC2 provider they talk to.                             *)
(*                                                                         *)
(* Every provider call and every commit to the state database is one step, *)
(* so that a crash or an exception can fall between any two of them.       *)
(***************************************************************************)
EXTENDS Integers, Sequences, FiniteSets, TLC

\* ------------------------------------------------------------------ bounds
MaxVpcs == 2      \* VPC identifiers the provider hands out
MaxAssoc == 1     \* IPv6 association identifiers the provider hands out
MaxFaults == 1    \* crashes, provider errors and outside changes in one run
MaxPolls == 3     \* polls of one invocation of the VPC waiter

\* ------------------------------------------------------------ value domains
None == "None"
MISSING == "MISSING"
STARTING == "STARTING"
UP == "UP"

Regions == {"r1"}
CidrBlocks == {"c1", "c2"}
Tenancies == {"default"}
Flags == {"True", "False"}
TagSets == {"t1"}

VpcIds == 1..MaxVpcs
AssocIds == 1..MaxAssoc

\* the configurations a caller may declare (defn.config)
Configs ==
  [cidrBlock : CidrBlocks, region : Regions, instanceTenancy : Tenancies,
   enableDnsSupport : {"True"}, enableDnsHostnames : {"True"},
   enableClassicLink : Flags, amazonProvidedIpv6CidrBlock : Flags,
   tags : TagSets]

ConfigKeys ==
  {"cidrBlock", "region", "instanceTenancy", "enableDnsSupport",
   "enableDnsHostnames", "enableClassicLink", "amazonProvidedIpv6CidrBlock",
   "tags"}

\* ------------------------------------------------------------------- state
VARIABLES
  state,            \* persisted lifecycle status (attr_property "state")
  st,               \* persisted StateDict self._state
  vpc_id,           \* in-memory self.vpc_id
  client,           \* in-memory self._client: None or the region connected to
  association_id,   \* local of realize_associate_ipv6_cidr_block
  wid,              \* argument vpc_id of wait_for_vpc_available
  vpcs,             \* provider: VPC id -> VPC record
  assocs,           \* provider: association id -> association record
  nextId,           \* provider: next VPC id to hand out
  nextAssoc,        \* provider: next association id to hand out
  pc,               \* position of the running operation
  stack,            \* positions to continue at when the current call returns
  op,               \* the running operation and its arguments
  todo,             \* handlers of the plan not yet run
  drift,            \* ensure_state_up found the VPC deleted (allow_recreate = True)
  err,              \* exception that ended the operation
  pre,              \* history: persisted state and client when the operation started
  repeat,           \* history: this operation repeats the one that just succeeded
  calls,            \* history: provider calls issued by this operation
  provErr,          \* history: a provider call of this operation returned an error
  trace,            \* history: persisted status values seen during this operation
  hwrites,          \* history: persisted fields written by this handler invocation
  hfull,            \* history: persisted fields this handler invocation writes in all
  destroyed,        \* history: VPC ids whose destruction was committed
  staleCall,        \* history: a provider call used an id of a destroyed VPC
  idAtCheck,        \* history: vpcId that the check pass found absent
  faults,           \* history: crashes, provider errors and outside changes so far
  external,         \* history: the VPC was deleted from outside since the operation began
  hsnap,            \* history: persisted state when the current handler was invoked
  polled,           \* history: what the polls of the running waiter returned
  deleted           \* history: VPC ids that a delete_vpc call removed

persisted == <<state, st>>
memory == <<vpc_id, client, association_id, wid>>
provider == <<vpcs, assocs, nextId, nextAssoc>>
control == <<pc, stack, op, todo, drift, err>>
history == <<pre, repeat, calls, provErr, trace, hwrites, hfull, destroyed,
             staleCall, idAtCheck, faults, external, hsnap, polled,
             deleted>>
vars == <<persisted, memory, provider, control, history>>

\* ------------------------------------------------------- persisted StateDict
EmptyState ==
  [vpcId |-> 0, associationId |-> 0, region |-> None, cidrBlock |-> None,
   instanceTenancy |-> None, enableDnsSupport |-> None,
   enableDnsHostnames |-> None, enableClassicLink |-> None,
   amazonProvidedIpv6CidrBlock |-> None,
   enableDnsHostname |-> None, enableVpcClassicLink |-> None]

\* self._state.get(key, None)
Get(s, key) == IF key \in DOMAIN s THEN s[key] ELSE None

Truthy(v) == v = "True"

\* ----------------------------------------------------------------- provider
NoVpc ==
  [State |-> "absent", region |-> None, cidrBlock |-> None,
   instanceTenancy |-> None, enableDnsSupport |-> None,
   enableDnsHostnames |-> None, enableClassicLink |-> None, tags |-> None]

\* an association keeps naming its VPC after it is gone (State "gone")
NoAssoc == [vpc |-> 0, State |-> "none"]

\* the VPC that create_vpc returns
NewVpc(region, cidr, tenancy) ==
  [State |-> "pending", region |-> region, cidrBlock |-> cidr,
   instanceTenancy |-> tenancy, enableDnsSupport |-> "True",
   enableDnsHostnames |-> "False", enableClassicLink |-> "False",
   tags |-> None]

\* a call made through a client of region c finds the VPC
Found(c, id) ==
  /\ id \in VpcIds
  /\ vpcs[id].State # "absent"
  /\ vpcs[id].region = c

\* ... finds the association
FoundAssoc(c, a) ==
  /\ a \in AssocIds
  /\ assocs[a].State \in {"associating", "associated"}
  /\ Found(c, assocs[a].vpc)

\* the provider after a VPC is deleted: its associations go with it
VpcsWithout(id) == [vpcs EXCEPT ![id] = NoVpc]
AssocsWithout(id) ==
  [a \in AssocIds |->
     IF assocs[a].vpc = id /\ assocs[a].State # "none"
     THEN [assocs[a] EXCEPT !.State = "gone"] ELSE assocs[a]]

\* the associations of a VPC (Ipv6CidrBlockAssociationSet)
AssocSet(id) ==
  {a \in AssocIds : assocs[a].vpc = id /\ assocs[a].State \in {"associating", "associated"}}

\* the states a poll may find a VPC in, given the state last reported: a
\* pending VPC stays pending, becomes available, or shows a state that is
\* neither; any other state is final
Progress(last) ==
  IF last # "pending" THEN {last}
  ELSE IF faults < MaxFaults THEN {"pending", "available", "failed"}
  ELSE {"pending", "available"}

\* responses of a provider call: one that finds its target succeeds or fails
\* with some provider error; one that does not is answered NotFound
Outcomes(found) ==
  IF ~found THEN {"notfound"}
  ELSE IF faults < MaxFaults THEN {"ok", "error"} ELSE {"ok"}

\* ----------------------------------------------------------------- handlers
\* handlers in declaration order, their trigger keys and predecessors
Handlers == <<"create", "dns", "classic_link", "ipv6", "tag_update">>

Keys(h) ==
  CASE h = "create" -> {"cidrBlock", "region", "instanceTenancy"}
    [] h = "dns" -> {"enableDnsHostnames", "enableDnsSupport"}
    [] h = "classic_link" -> {"enableClassicLink"}
    [] h = "ipv6" -> {"amazonProvidedIpv6CidrBlock"}
    [] h = "tag_update" -> {"tags"}

After(h) == IF h = "create" THEN {} ELSE {"create"}

\* first position of the handler's effect
Entry(h) ==
  CASE h = "create" -> "rc_begin"
    [] h = "dns" -> "dns_support"
    [] h = "classic_link" -> "cl_begin"
    [] h = "ipv6" -> "v6_begin"
    [] h = "tag_update" -> "tag"

\* -------------------------------------------------------------- diff engine
Changed(cfg, s) == {k \in ConfigKeys : cfg[k] # Get(s, k)}

Triggered(changed) ==
  {i \in DOMAIN Handlers : Keys(Handlers[i]) \cap changed # {}}

\* triggered handlers and their declared predecessors
Included(changed) ==
  {i \in DOMAIN Handlers :
     \/ i \in Triggered(changed)
     \/ \E j \in Triggered(changed) : Handlers[i] \in After(Handlers[j])}

\* predecessors first, ties in declaration order
RECURSIVE TopoOrder(_, _)
TopoOrder(done, rest) ==
  IF rest = {} THEN done
  ELSE LET ready == {i \in rest :
                      \A j \in rest : Handlers[j] \notin After(Handlers[i])}
           i == CHOOSE k \in ready : \A m \in ready : k <= m
       IN TopoOrder(Append(done, Handlers[i]), rest \ {i})

Plan(cfg, s) == TopoOrder(<<>>, Included(Changed(cfg, s)))

\* --------------------------------------------------------------------- Init
NoConfig == [k \in ConfigKeys |-> None]
NoOp == [kind |-> "none", cfg |-> NoConfig, check |-> FALSE, allow_recreate |-> FALSE]

Init ==
  /\ state = MISSING
  /\ st = EmptyState
  /\ vpc_id = 0
  /\ client = None
  /\ association_id = 0
  /\ wid = 0
  /\ vpcs = [i \in VpcIds |-> NoVpc]
  /\ assocs = [a \in AssocIds |-> NoAssoc]
  /\ nextId = 1
  /\ nextAssoc = 1
  /\ pc = "idle"
  /\ stack = <<>>
  /\ op = NoOp
  /\ todo = <<>>
  /\ drift = FALSE
  /\ err = "none"
  /\ pre = [state |-> MISSING, st |-> EmptyState, client |-> None, gone |-> FALSE]
  /\ repeat = FALSE
  /\ calls = {}
  /\ provErr = FALSE
  /\ trace = <<MISSING>>
  /\ hwrites = {}
  /\ hfull = {}
  /\ destroyed = {}
  /\ staleCall = FALSE
  /\ idAtCheck = 0
  /\ faults = 0
  /\ external = FALSE
  /\ hsnap = [state |-> MISSING, st |-> EmptyState]
  /\ polled = <<>>
  /\ deleted = {}

\* ------------------------------------------------------------ step helpers
Rest == {"idle", "done", "raised"}

Goto(l) == pc' = l /\ UNCHANGED <<stack, op, todo, drift, err>>
Return == pc' = Head(stack) /\ stack' = Tail(stack) /\ UNCHANGED <<op, todo, drift, err>>
Raise(e) == pc' = "raised" /\ err' = e /\ stack' = <<>> /\ UNCHANGED <<op, todo, drift>>

\* the identifier named in a provider call belongs to a destroyed VPC
Stale(kind, target) ==
  IF kind = "assoc"
  THEN target \in AssocIds /\ assocs[target].vpc \in destroyed
  ELSE target \in destroyed

\* record a provider call and whether it was answered with an error
Answered(name, kind, target, outcome, fault) ==
  /\ calls' = calls \cup {<<name, target>>}
  /\ staleCall' = (staleCall \/ Stale(kind, target))
  /\ provErr' = (provErr \/ outcome # "ok")
  /\ faults' = IF fault THEN faults + 1 ELSE faults
Issue(name, kind, target, outcome) ==
  Answered(name, kind, target, outcome, outcome = "error")
NoCall == UNCHANGED <<calls, staleCall, provErr, faults>>

\* write the persisted status
Status(s) == state' = s /\ trace' = IF s = state THEN trace ELSE Append(trace, s)
NoStatus == UNCHANGED <<state, trace>>

\* self.connect(): the client, once made, is kept
Connect == IF client = None THEN st.region ELSE client

\* create(cfg) directly follows a successful create(cfg)
Repeats(cfg) ==
  pc = "done" /\ op.kind = "create" /\ op.cfg = cfg /\ ~external

\* destroy directly follows a successful destroy
RepeatsDestroy == pc = "done" /\ op.kind = "destroy" /\ ~external

\* frame of the history variables that few steps touch
SameOp == UNCHANGED <<pre, repeat, destroyed, idAtCheck, external, deleted>>
Same == SameOp /\ UNCHANGED <<hsnap, polled>>
Wrote(w) == hwrites' = hwrites \cup w /\ UNCHANGED hfull
Enter(w, f) == hwrites' = w /\ hfull' = f

\* an operation starts: the history of the previous one is dropped
OpStarts(full, rep) ==
  /\ pre' = [state |-> state, st |-> st, client |-> client,
              gone |-> st.vpcId \in VpcIds /\ vpcs[st.vpcId].State = "absent"]
  /\ repeat' = rep
  /\ calls' = {} /\ provErr' = FALSE
  /\ trace' = <<state>>
  /\ hwrites' = {} /\ hfull' = full
  /\ idAtCheck' = 0 /\ external' = FALSE
  /\ hsnap' = [state |-> state, st |-> st] /\ polled' = <<>>
  /\ UNCHANGED <<state, destroyed, staleCall, faults, deleted>>

\* fields written by the handlers
DestroyWrites ==
  {"state", "vpcId", "region", "cidrBlock", "instanceTenancy",
   "enableDnsSupport", "enableDnsHostname", "enableVpcClassicLink"}
CreateWrites == {"state", "vpcId", "region", "cidrBlock", "instanceTenancy"}

\* ---------------------------------------------------------------- _destroy
\* the state that _destroy commits
Cleared_mut(s) ==
  [s EXCEPT !.region = None, !.cidrBlock = None,
            !.instanceTenancy = None, !.enableDnsSupport = None,
            !.enableDnsHostname = None, !.enableVpcClassicLink = None]
Cleared(s) ==
  [s EXCEPT !.vpcId = 0, !.region = None, !.cidrBlock = None,
            !.instanceTenancy = None, !.enableDnsSupport = None,
            !.enableDnsHostname = None, !.enableVpcClassicLink = None]

\* _destroy returns at once unless the VPC is up
DestroySkips_mut == state = STARTING
DestroySkips == state # UP

\* _destroy up to the delete_vpc call
DestroyBegin_mut ==
  /\ pc = "d_begin"
  /\ IF DestroySkips
     THEN Return /\ NoCall /\ UNCHANGED <<client, vpcs, assocs, deleted>>
     ELSE IF client = None /\ st.region = None
     THEN Raise("AssertionError") /\ NoCall /\ UNCHANGED <<client, vpcs, assocs, deleted>>
     ELSE \E outcome \in Outcomes(Found(Connect, st.vpcId)) :
            /\ client' = Connect
            /\ Issue("delete_vpc", "vpc", st.vpcId, outcome)
            /\ IF outcome = "ok"
               THEN /\ vpcs' = VpcsWithout(st.vpcId) /\ assocs' = AssocsWithout(st.vpcId)
                    /\ deleted' = deleted \cup {st.vpcId}
               ELSE UNCHANGED <<vpcs, assocs, deleted>>
            /\ IF outcome # "ok" THEN Raise("ProviderError") ELSE Goto("d_commit")
  /\ NoStatus /\ Wrote({})
  /\ UNCHANGED <<pre, repeat, destroyed, idAtCheck, external, hsnap, polled>>
  /\ UNCHANGED <<st, vpc_id, association_id, wid, nextId, nextAssoc>>
DestroyBegin ==
  /\ pc = "d_begin"
  /\ IF DestroySkips
     THEN Return /\ NoCall /\ UNCHANGED <<client, vpcs, assocs, deleted>>
     ELSE IF client = None /\ st.region = None
     THEN Raise("AssertionError") /\ NoCall /\ UNCHANGED <<client, vpcs, assocs, deleted>>
     ELSE \E outcome \in Outcomes(Found(Connect, st.vpcId)) :
            /\ client' = Connect
            /\ Issue("delete_vpc", "vpc", st.vpcId, outcome)
            /\ IF outcome = "ok"
               THEN /\ vpcs' = VpcsWithout(st.vpcId) /\ assocs' = AssocsWithout(st.vpcId)
                    /\ deleted' = deleted \cup {st.vpcId}
               ELSE UNCHANGED <<vpcs, assocs, deleted>>
            /\ IF outcome = "error" THEN Raise("ProviderError") ELSE Goto("d_commit")
  /\ NoStatus /\ Wrote({})
  /\ UNCHANGED <<pre, repeat, destroyed, idAtCheck, external, hsnap, polled>>
  /\ UNCHANGED <<st, vpc_id, association_id, wid, nextId, nextAssoc>>

\* the transaction of _destroy
DestroyCommit_mut ==
  /\ pc = "d_commit"
  /\ NoStatus
  /\ st' = Cleared(st)
  /\ destroyed' = destroyed \cup ({st.vpcId} \cap VpcIds)
  /\ Wrote(DestroyWrites)
  /\ Return /\ NoCall
  /\ UNCHANGED <<pre, repeat, idAtCheck, external, hsnap, polled, deleted>>
  /\ UNCHANGED <<memory, provider>>
DestroyCommit ==
  /\ pc = "d_commit"
  /\ Status(MISSING)
  /\ st' = Cleared(st)
  /\ destroyed' = destroyed \cup ({st.vpcId} \cap VpcIds)
  /\ Wrote(DestroyWrites)
  /\ Return /\ NoCall
  /\ UNCHANGED <<pre, repeat, idAtCheck, external, hsnap, polled, deleted>>
  /\ UNCHANGED <<memory, provider>>

\* destroy(wipe): runs _destroy and returns True
StartDestroy ==
  /\ pc \in Rest
  /\ op' = [NoOp EXCEPT !.kind = "destroy"]
  /\ pc' = "d_begin" /\ stack' = <<"done">>
  /\ todo' = <<>> /\ drift' = FALSE /\ err' = "none"
  /\ OpStarts(IF DestroySkips THEN {} ELSE DestroyWrites, RepeatsDestroy)
  /\ UNCHANGED <<st, memory, provider>>

\* ------------------------------------------------------------------ create
\* create up to the plan; an access key is always found (credential
\* resolution is outside the model)
StartCreate(cfg, check, allow) ==
  /\ pc \in Rest
  /\ nextId <= MaxVpcs
  /\ op' = [kind |-> "create", cfg |-> cfg, check |-> check, allow_recreate |-> allow]
  /\ pc' = "next" /\ err' = "none" /\ todo' = Plan(cfg, st)
  /\ stack' = <<>> /\ drift' = FALSE
  /\ OpStarts({}, Repeats(cfg))
  /\ UNCHANGED <<st, memory, provider>>

\* the loop over the plan, then ensure_state_up
NextHandler_mut ==
  /\ pc = "next"
  /\ IF todo = <<>>
     THEN pc' = "ensure" /\ UNCHANGED <<todo, stack>>
     ELSE pc' = Entry(todo[Len(todo)]) /\ todo' = SubSeq(todo, 1, Len(todo) - 1)
          /\ stack' = <<"next">>
  /\ UNCHANGED <<op, drift, err>>
  /\ hsnap' = [state |-> state, st |-> st]
  /\ NoCall /\ NoStatus /\ SameOp /\ Wrote({})
  /\ UNCHANGED polled
  /\ UNCHANGED <<st, memory, provider>>
NextHandler ==
  /\ pc = "next"
  /\ IF todo = <<>>
     THEN pc' = "ensure" /\ UNCHANGED <<todo, stack>>
     ELSE pc' = Entry(Head(todo)) /\ todo' = Tail(todo) /\ stack' = <<"next">>
  /\ UNCHANGED <<op, drift, err>>
  /\ hsnap' = [state |-> state, st |-> st]
  /\ NoCall /\ NoStatus /\ SameOp /\ Wrote({})
  /\ UNCHANGED polled
  /\ UNCHANGED <<st, memory, provider>>

\* ------------------------------------------------------- realize_create_vpc
\* allow_recreate as the handler receives it
AllowRecreate_mut == TRUE
AllowRecreate == op.allow_recreate \/ drift

\* realize_create_vpc up to the create_vpc call, when no VPC is up
RcBegin ==
  /\ pc = "rc_begin"
  /\ IF state = UP
     THEN /\ IF ~AllowRecreate
             THEN Raise("RecreateRequired")
             ELSE pc' = "d_begin" /\ stack' = <<"rc_reset">> \o stack
                  /\ UNCHANGED <<op, todo, drift, err>>
          /\ Enter({}, CreateWrites \cup DestroyWrites)
          /\ UNCHANGED <<st, client>>
     ELSE /\ st' = [st EXCEPT !.region = op.cfg.region]
          /\ client' = IF client = None THEN op.cfg.region ELSE client
          /\ Goto("rc_create")
          /\ Enter({"region"}, CreateWrites)
  /\ NoCall /\ NoStatus /\ Same
  /\ UNCHANGED <<vpc_id, association_id, wid, provider>>

\* realize_create_vpc after _destroy returned: a new client for the new region
RcReset ==
  /\ pc = "rc_reset"
  /\ st' = [st EXCEPT !.region = op.cfg.region]
  /\ client' = op.cfg.region
  /\ Goto("rc_create")
  /\ Wrote({"region"})
  /\ NoCall /\ NoStatus /\ Same
  /\ UNCHANGED <<vpc_id, association_id, wid, provider>>

\* the create_vpc call
RcCreate ==
  /\ pc = "rc_create"
  /\ nextId <= MaxVpcs
  /\ \E outcome \in Outcomes(TRUE) :
       /\ Issue("create_vpc", "vpc", 0, outcome)
       /\ IF outcome = "ok"
          THEN /\ vpcs' = [vpcs EXCEPT ![nextId] =
                             NewVpc(client, op.cfg.cidrBlock, op.cfg.instanceTenancy)]
               /\ nextId' = nextId + 1
               /\ vpc_id' = nextId
               /\ Goto("rc_commit")
          ELSE Raise("ProviderError") /\ UNCHANGED <<vpcs, nextId, vpc_id>>
  /\ NoStatus /\ Same /\ Wrote({})
  /\ UNCHANGED <<st, client, association_id, wid, assocs, nextAssoc>>

\* the transaction of realize_create_vpc
RcCommit_mut ==
  /\ pc = "rc_commit"
  /\ Status(UP)
  /\ st' = [st EXCEPT !.vpcId = vpc_id, !.region = op.cfg.region,
                      !.cidrBlock = op.cfg.cidrBlock,
                      !.instanceTenancy = op.cfg.instanceTenancy]
  /\ Goto("rc_tags")
  /\ Wrote(CreateWrites)
  /\ NoCall /\ Same
  /\ UNCHANGED <<memory, provider>>
RcCommit ==
  /\ pc = "rc_commit"
  /\ Status(STARTING)
  /\ st' = [st EXCEPT !.vpcId = vpc_id, !.region = op.cfg.region,
                      !.cidrBlock = op.cfg.cidrBlock,
                      !.instanceTenancy = op.cfg.instanceTenancy]
  /\ Goto("rc_tags")
  /\ Wrote(CreateWrites)
  /\ NoCall /\ Same
  /\ UNCHANGED <<memory, provider>>

\* update_tags_using(tag_updater, ..., check=True), then the waiter is entered
RcTags_mut ==
  /\ pc = "rc_tags"
  /\ \E outcome \in Outcomes(Found(client, vpc_id)) :
       /\ Issue("create_tags", "vpc", vpc_id, outcome)
       /\ IF outcome = "ok"
          THEN /\ vpcs' = [vpcs EXCEPT ![vpc_id].tags = op.cfg.tags]
               /\ wid' = vpc_id
               /\ Goto("wait_commit")
          ELSE Raise("ProviderError") /\ UNCHANGED <<vpcs, wid>>
  /\ polled' = <<>>
  /\ NoStatus /\ SameOp /\ Wrote({})
  /\ UNCHANGED hsnap
  /\ UNCHANGED <<st, vpc_id, client, association_id, assocs, nextId, nextAssoc>>
RcTags ==
  /\ pc = "rc_tags"
  /\ \E outcome \in Outcomes(Found(client, vpc_id)) :
       /\ Issue("create_tags", "vpc", vpc_id, outcome)
       /\ IF outcome = "ok"
          THEN /\ vpcs' = [vpcs EXCEPT ![vpc_id].tags = op.cfg.tags]
               /\ wid' = vpc_id
               /\ Goto("wait")
          ELSE Raise("ProviderError") /\ UNCHANGED <<vpcs, wid>>
  /\ polled' = <<>>
  /\ NoStatus /\ SameOp /\ Wrote({})
  /\ UNCHANGED hsnap
  /\ UNCHANGED <<st, vpc_id, client, association_id, assocs, nextId, nextAssoc>>

\* --------------------------------------------------- wait_for_vpc_available
\* one poll of the waiter; the provider's progress shows at a poll
WaitPoll_mut ==
  /\ pc = "wait"
  /\ Len(polled) < MaxPolls
  /\ \E outcome \in Outcomes(Found(client, wid)) :
       IF outcome # "ok"
       THEN /\ Issue("describe_vpcs", "vpc", wid, outcome)
            /\ Raise(IF outcome = "notfound" THEN "NotFoundError" ELSE "ProviderError")
            /\ polled' = Append(polled, outcome)
            /\ UNCHANGED vpcs
       ELSE \E seen \in Progress(vpcs[wid].State) :
              /\ Answered("describe_vpcs", "vpc", wid, outcome,
                          seen = "failed" /\ vpcs[wid].State # "failed")
              /\ vpcs' = [vpcs EXCEPT ![wid].State = seen]
              /\ polled' = Append(polled, seen)
              /\ IF seen = "available" THEN Goto("wait_commit")
                 ELSE Goto("wait")
  /\ NoStatus /\ SameOp /\ Wrote({})
  /\ UNCHANGED hsnap
  /\ UNCHANGED <<st, memory, assocs, nextId, nextAssoc>>
WaitPoll ==
  /\ pc = "wait"
  /\ Len(polled) < MaxPolls
  /\ \E outcome \in Outcomes(Found(client, wid)) :
       IF outcome # "ok"
       THEN /\ Issue("describe_vpcs", "vpc", wid, outcome)
            /\ Raise(IF outcome = "notfound" THEN "NotFoundError" ELSE "ProviderError")
            /\ polled' = Append(polled, outcome)
            /\ UNCHANGED vpcs
       ELSE \E seen \in Progress(vpcs[wid].State) :
              /\ Answered("describe_vpcs", "vpc", wid, outcome,
                          seen = "failed" /\ vpcs[wid].State # "failed")
              /\ vpcs' = [vpcs EXCEPT ![wid].State = seen]
              /\ polled' = Append(polled, seen)
              /\ IF seen = "available" THEN Goto("wait_commit")
                 ELSE IF seen = "pending" THEN Goto("wait")
                 ELSE Raise("UnexpectedStateError")
  /\ NoStatus /\ SameOp /\ Wrote({})
  /\ UNCHANGED hsnap
  /\ UNCHANGED <<st, memory, assocs, nextId, nextAssoc>>

\* the transaction of the waiter
WaitCommit ==
  /\ pc = "wait_commit"
  /\ Status(UP)
  /\ Return
  /\ Wrote({"state"})
  /\ polled' = <<>>
  /\ NoCall /\ SameOp
  /\ UNCHANGED <<hsnap, st, memory, provider>>

\* the assertion of connect() fails: no client yet and no region persisted
ConnectFails == client = None /\ st.region = None

\* ---------------------------------------------- realize_classic_link_change
\* realize_classic_link_change up to its transaction
ClBegin ==
  /\ pc = "cl_begin"
  /\ Enter({}, {"enableClassicLink"})
  /\ IF ConnectFails
     THEN Raise("AssertionError") /\ NoCall /\ UNCHANGED <<client, vpcs>>
     ELSE IF Truthy(op.cfg.enableClassicLink)
     THEN \E outcome \in Outcomes(Found(Connect, vpc_id)) :
            /\ client' = Connect
            /\ Issue("enable_vpc_classic_link", "vpc", vpc_id, outcome)
            /\ IF outcome = "ok"
               THEN vpcs' = [vpcs EXCEPT ![vpc_id].enableClassicLink = "True"]
                    /\ Goto("cl_commit")
               ELSE Raise("ProviderError") /\ UNCHANGED vpcs
     ELSE IF op.cfg.enableClassicLink = "False" /\ Truthy(st.enableClassicLink)
     THEN \E outcome \in Outcomes(Found(Connect, vpc_id)) :
            /\ client' = Connect
            /\ Issue("disable_vpc_classic_link", "vpc", vpc_id, outcome)
            /\ IF outcome = "ok"
               THEN vpcs' = [vpcs EXCEPT ![vpc_id].enableClassicLink = "False"]
                    /\ Goto("cl_commit")
               ELSE Raise("ProviderError") /\ UNCHANGED vpcs
     ELSE client' = Connect /\ Goto("cl_commit") /\ NoCall /\ UNCHANGED vpcs
  /\ NoStatus /\ Same
  /\ UNCHANGED <<st, vpc_id, association_id, wid, assocs, nextId, nextAssoc>>

\* the transaction of realize_classic_link_change
ClCommit ==
  /\ pc = "cl_commit"
  /\ st' = [st EXCEPT !.enableClassicLink = op.cfg.enableClassicLink]
  /\ Return
  /\ Wrote({"enableClassicLink"})
  /\ NoCall /\ NoStatus /\ Same
  /\ UNCHANGED <<memory, provider>>

\* ------------------------------------------------------- realize_dns_config
\* modify_vpc_attribute(EnableDnsSupport)
DnsSupport ==
  /\ pc = "dns_support"
  /\ Enter({}, {"enableDnsSupport", "enableDnsHostnames"})
  /\ IF ConnectFails
     THEN Raise("AssertionError") /\ NoCall /\ UNCHANGED <<client, vpcs>>
     ELSE \E outcome \in Outcomes(Found(Connect, vpc_id)) :
            /\ client' = Connect
            /\ Issue("modify_vpc_attribute", "vpc", vpc_id, outcome)
            /\ IF outcome = "ok"
               THEN vpcs' = [vpcs EXCEPT ![vpc_id].enableDnsSupport = op.cfg.enableDnsSupport]
                    /\ Goto("dns_hostnames")
               ELSE Raise("ProviderError") /\ UNCHANGED vpcs
  /\ NoStatus /\ Same
  /\ UNCHANGED <<st, vpc_id, association_id, wid, assocs, nextId, nextAssoc>>

\* modify_vpc_attribute(EnableDnsHostnames)
DnsHostnames ==
  /\ pc = "dns_hostnames"
  /\ \E outcome \in Outcomes(Found(client, vpc_id)) :
       /\ Issue("modify_vpc_attribute", "vpc", vpc_id, outcome)
       /\ IF outcome = "ok"
          THEN vpcs' = [vpcs EXCEPT ![vpc_id].enableDnsHostnames = op.cfg.enableDnsHostnames]
               /\ Goto("dns_commit")
          ELSE Raise("ProviderError") /\ UNCHANGED vpcs
  /\ NoStatus /\ Same /\ Wrote({})
  /\ UNCHANGED <<st, memory, assocs, nextId, nextAssoc>>

\* the transaction of realize_dns_config
DnsCommit ==
  /\ pc = "dns_commit"
  /\ st' = [st EXCEPT !.enableDnsSupport = op.cfg.enableDnsSupport,
                      !.enableDnsHostnames = op.cfg.enableDnsHostnames]
  /\ Return
  /\ Wrote({"enableDnsSupport", "enableDnsHostnames"})
  /\ NoCall /\ NoStatus /\ Same
  /\ UNCHANGED <<memory, provider>>

\* -------------------------------------- realize_associate_ipv6_cidr_block
\* realize_associate_ipv6_cidr_block up to the wait or the transaction
V6Begin ==
  /\ pc = "v6_begin"
  /\ IF ConnectFails
     THEN Raise("AssertionError") /\ NoCall /\ Enter({}, {})
          /\ UNCHANGED <<client, association_id, assocs, nextAssoc>>
     ELSE IF Truthy(op.cfg.amazonProvidedIpv6CidrBlock)
     THEN /\ nextAssoc <= MaxAssoc
          /\ Enter({}, {"amazonProvidedIpv6CidrBlock", "associationId"})
          /\ \E outcome \in Outcomes(Found(Connect, st.vpcId)) :
               /\ client' = Connect
               /\ Issue("associate_vpc_cidr_block", "vpc", st.vpcId, outcome)
               /\ IF outcome = "ok"
                  THEN /\ assocs' = [assocs EXCEPT ![nextAssoc] =
                                       [vpc |-> st.vpcId, State |-> "associating"]]
                       /\ nextAssoc' = nextAssoc + 1
                       /\ association_id' = nextAssoc
                       /\ Goto("v6_wait")
                  ELSE Raise("ProviderError")
                       /\ UNCHANGED <<assocs, nextAssoc, association_id>>
     ELSE IF st.associationId # 0
     THEN /\ Enter({}, {"amazonProvidedIpv6CidrBlock"})
          /\ \E outcome \in Outcomes(FoundAssoc(Connect, st.associationId)) :
               /\ client' = Connect
               /\ Issue("disassociate_vpc_cidr_block", "assoc", st.associationId, outcome)
               /\ IF outcome = "ok"
                  THEN assocs' = [assocs EXCEPT ![st.associationId].State = "gone"]
                       /\ Goto("v6_commit")
                  ELSE Raise("ProviderError") /\ UNCHANGED assocs
          /\ UNCHANGED <<nextAssoc, association_id>>
     ELSE /\ Enter({}, {"amazonProvidedIpv6CidrBlock"})
          /\ client' = Connect /\ Goto("v6_commit") /\ NoCall
          /\ UNCHANGED <<assocs, nextAssoc, association_id>>
  /\ NoStatus /\ Same
  /\ UNCHANGED <<st, vpc_id, wid, vpcs, nextId>>

\* one poll of wait_for_ipv6_cidr_association
V6Wait ==
  /\ pc = "v6_wait"
  /\ \E outcome \in Outcomes(Found(client, st.vpcId)) :
       /\ Issue("describe_vpcs", "vpc", st.vpcId, outcome)
       /\ IF outcome = "notfound" THEN Raise("NotFoundError") /\ UNCHANGED assocs
          ELSE IF outcome = "error" THEN Raise("ProviderError") /\ UNCHANGED assocs
          ELSE IF association_id \notin AssocSet(st.vpcId)
          THEN Raise("TypeError") /\ UNCHANGED assocs
          ELSE \E seen \in {"associating", "associated"} :
                 /\ assocs[association_id].State = "associated" => seen = "associated"
                 /\ assocs' = [assocs EXCEPT ![association_id].State = seen]
                 /\ IF seen = "associated" THEN Goto("v6_commit") ELSE Goto("v6_wait")
  /\ NoStatus /\ Same /\ Wrote({})
  /\ UNCHANGED <<st, memory, vpcs, nextId, nextAssoc>>

\* the transaction of realize_associate_ipv6_cidr_block
V6Commit ==
  /\ pc = "v6_commit"
  /\ st' = [st EXCEPT
             !.amazonProvidedIpv6CidrBlock = op.cfg.amazonProvidedIpv6CidrBlock,
             !.associationId = IF Truthy(op.cfg.amazonProvidedIpv6CidrBlock)
                               THEN association_id ELSE st.associationId]
  /\ Return
  /\ Wrote(hfull)
  /\ NoCall /\ NoStatus /\ Same
  /\ UNCHANGED <<memory, provider>>

\* ------------------------------------------------------- realize_update_tag
TagUpdate ==
  /\ pc = "tag"
  /\ Enter({}, {})
  /\ IF ConnectFails
     THEN Raise("AssertionError") /\ NoCall /\ UNCHANGED <<client, vpcs>>
     ELSE \E outcome \in Outcomes(Found(Connect, vpc_id)) :
            /\ client' = Connect
            /\ Issue("create_tags", "vpc", vpc_id, outcome)
            /\ IF outcome = "ok"
               THEN vpcs' = [vpcs EXCEPT ![vpc_id].tags = op.cfg.tags] /\ Return
               ELSE Raise("ProviderError") /\ UNCHANGED vpcs
  /\ NoStatus /\ Same
  /\ UNCHANGED <<st, vpc_id, association_id, wid, assocs, nextId, nextAssoc>>

\* ---------------------------------------------------------- ensure_state_up
\* ensure_state_up up to the check
Ensure ==
  /\ pc = "ensure"
  /\ st' = [st EXCEPT !.region = op.cfg.region]
  /\ client' = IF client = None THEN op.cfg.region ELSE client
  /\ IF st.vpcId = 0 THEN Goto("done")
     ELSE IF op.check THEN Goto("es_check")
     ELSE Goto("es_final")
  /\ Enter({"region"}, IF st.vpcId # 0 /\ state # UP THEN {"region", "state"} ELSE {"region"})
  /\ NoCall /\ NoStatus /\ Same
  /\ UNCHANGED <<vpc_id, association_id, wid, provider>>

\* the describe_vpcs call of the check; a VPC deleted from outside is recreated
EsCheck_mut ==
  /\ pc = "es_check"
  /\ \E outcome \in Outcomes(Found(client, st.vpcId)) :
       /\ Issue("describe_vpcs", "vpc", st.vpcId, outcome)
       /\ IF outcome = "notfound"
          THEN /\ drift' = TRUE
               /\ idAtCheck' = st.vpcId
               /\ pc' = "es_final"
               /\ UNCHANGED <<stack, op, todo, err>>
          ELSE /\ IF outcome = "error" THEN Raise("ProviderError") ELSE Goto("es_final")
               /\ UNCHANGED idAtCheck
  /\ NoStatus /\ Wrote({})
  /\ UNCHANGED <<pre, repeat, destroyed, external, hsnap, polled, deleted>>
  /\ UNCHANGED <<st, memory, provider>>
EsCheck ==
  /\ pc = "es_check"
  /\ \E outcome \in Outcomes(Found(client, st.vpcId)) :
       /\ Issue("describe_vpcs", "vpc", st.vpcId, outcome)
       /\ IF outcome = "notfound"
          THEN /\ drift' = TRUE
               /\ idAtCheck' = st.vpcId
               /\ pc' = "rc_begin"
               /\ stack' = <<"cl_begin", "dns_support", "es_final">>
               /\ UNCHANGED <<op, todo, err>>
          ELSE /\ IF outcome = "error" THEN Raise("ProviderError") ELSE Goto("es_final")
               /\ UNCHANGED idAtCheck
  /\ NoStatus /\ Wrote({})
  /\ UNCHANGED <<pre, repeat, destroyed, external, hsnap, polled, deleted>>
  /\ UNCHANGED <<st, memory, provider>>

\* the end of ensure_state_up: a VPC that is not up is waited for
EsFinal ==
  /\ pc = "es_final"
  /\ IF state # UP
     THEN wid' = st.vpcId /\ pc' = "wait" /\ stack' = <<"done">>
          /\ UNCHANGED <<op, todo, drift, err>>
     ELSE Goto("done") /\ UNCHANGED wid
  /\ polled' = <<>>
  /\ NoCall /\ NoStatus /\ SameOp /\ Wrote({})
  /\ UNCHANGED <<hsnap, st, vpc_id, client, association_id, provider>>

\* -------------------------------------------------------------- environment
\* the VPC is deleted from outside nixops
ExternalDelete(id) ==
  /\ vpcs[id].State # "absent"
  /\ vpcs' = VpcsWithout(id)
  /\ assocs' = AssocsWithout(id)
  /\ faults < MaxFaults
  /\ faults' = faults + 1
  /\ external' = TRUE
  /\ UNCHANGED <<persisted, memory, nextId, nextAssoc, control>>
  /\ UNCHANGED <<pre, repeat, calls, provErr, trace, hwrites, hfull, destroyed,
                 staleCall, idAtCheck, hsnap, polled, deleted>>

\* the process ends and another one loads the resource: VPCState.__init__
Reload ==
  /\ vpc_id' = st.vpcId
  /\ client' = None
  /\ association_id' = 0 /\ wid' = 0
  /\ UNCHANGED <<persisted, provider, op, todo, drift>>
  /\ UNCHANGED <<pre, repeat, calls, provErr, trace, hwrites, hfull, destroyed,
                 staleCall, idAtCheck, external, hsnap, polled, deleted>>

\* the process dies in the middle of an operation
Crash ==
  /\ pc \notin Rest
  /\ faults < MaxFaults
  /\ faults' = faults + 1
  /\ pc' = "raised" /\ err' = "Crash" /\ stack' = <<>>
  /\ Reload

\* the process ends after an operation
Restart ==
  /\ pc \in {"done", "raised"}
  /\ client # None \/ vpc_id # st.vpcId
  /\ UNCHANGED <<pc, err, stack, faults>>
  /\ Reload

\* --------------------------------------------------------------------- Next
Next ==
  \/ \E cfg \in Configs, check \in BOOLEAN, allow \in BOOLEAN :
       StartCreate(cfg, check, allow)
  \/ StartDestroy
  \/ NextHandler
  \/ RcBegin \/ RcReset \/ RcCreate \/ RcCommit \/ RcTags
  \/ WaitPoll \/ WaitCommit
  \/ DestroyBegin \/ DestroyCommit
  \/ ClBegin \/ ClCommit
  \/ DnsSupport \/ DnsHostnames \/ DnsCommit
  \/ V6Begin \/ V6Wait \/ V6Commit
  \/ TagUpdate
  \/ Ensure \/ EsCheck \/ EsFinal
  \/ \E id \in VpcIds : ExternalDelete(id)
  \/ Crash
  \/ Restart

Spec == Init /\ [][Next]_vars

\* ==================================================================== claims
Persisted == [state |-> state, st |-> st]
PrePersisted == [state |-> pre.state, st |-> pre.st]
CallNames == {c[1] : c \in calls}

\* provider calls that change what the provider holds
Mutating ==
  {"create_vpc", "delete_vpc", "modify_vpc_attribute", "enable_vpc_classic_link",
   "disable_vpc_classic_link", "associate_vpc_cidr_block",
   "disassociate_vpc_cidr_block", "create_tags"}

\* a changed attribute of this create pass triggers the creation handler
CreationChanged == Changed(op.cfg, pre.st) \cap Keys("create") # {}

\* C1: a create that directly repeats a successful create with the same
\* configuration and check=false issues no provider call that changes the
\* provider's state, and ends with the persisted state it started with.
C1_Idempotent ==
  (op.kind = "create" /\ repeat /\ ~op.check) =>
    /\ CallNames \cap Mutating = {}
    /\ pc \in Rest => Persisted = PrePersisted

C5_DestroyEndsMissing ==
  (pc = "done" /\ op.kind = "destroy") =>
    /\ state = MISSING
    /\ st.vpcId = 0
    /\ pre.st.vpcId # 0 => vpcs[pre.st.vpcId].State = "absent"

\* C6: after a destroy that started with status Up and returned, every
\* persisted attribute field holds its empty value.
C6_DestroyClearsAll ==
  (pc = "done" /\ op.kind = "destroy" /\ pre.state = UP) =>
    /\ st.region = None /\ st.cidrBlock = None /\ st.instanceTenancy = None
    /\ st.enableDnsSupport = None /\ st.enableDnsHostnames = None
    /\ st.enableClassicLink = None /\ st.amazonProvidedIpv6CidrBlock = None
    /\ st.associationId = 0

\* C7: a destroy that starts with status Missing, or that directly follows a
\* destroy that returned, issues no provider call, makes no client, leaves
\* the persisted state as it was, and does not raise.
C7_DestroyIdempotent ==
  (op.kind = "destroy" /\ (pre.state = MISSING \/ repeat)) =>
    /\ calls = {}
    /\ Persisted = PrePersisted
    /\ pc \in {"d_begin", "done"} \/ (pc = "raised" /\ err = "Crash")
    /\ pre.client = None => client = None

C7_Witness ==
  /\ op.kind = "destroy" /\ pre.state = MISSING /\ pc = "done"
  /\ pre.st.amazonProvidedIpv6CidrBlock # None

\* C8: no provider call names the vpcId of a VPC whose destruction was
\* committed, nor an associationId obtained for such a VPC.
C8_NoStaleIdentifier == ~staleCall

\* C9: at every point of a handler invocation, none or all of the persisted
\* fields that the invocation writes have been written.
C9_AtomicCommit == hwrites = {} \/ hwrites = hfull

\* the persisted attributes describe the provider's VPC named by vpcId
Consistent ==
  /\ st.vpcId \in VpcIds
  /\ LET v == vpcs[st.vpcId] IN
       /\ v.State = "available"
       /\ v.cidrBlock = st.cidrBlock
       /\ v.instanceTenancy = st.instanceTenancy
       /\ v.enableDnsSupport = st.enableDnsSupport
       /\ v.enableDnsHostnames = st.enableDnsHostnames
       /\ v.enableClassicLink = st.enableClassicLink
       /\ Truthy(st.amazonProvidedIpv6CidrBlock) <=> AssocSet(st.vpcId) # {}
       /\ Truthy(st.amazonProvidedIpv6CidrBlock) => st.associationId \in AssocSet(st.vpcId)

\* C10: at the end of every create pass that returns, with nothing changed
\* from outside, the persisted attributes equal those of the provider's VPC
\* named by the persisted vpcId.
C10_CommittedConsistent ==
  (pc = "done" /\ op.kind = "create" /\ faults = 0) => Consistent

\* C11: when a create pass ends with a provider error raised inside a handler
\* of the plan, the persisted state is the one that was committed when that
\* handler was invoked, i.e. the state left by the last handler that
\* completed.
C11_FatalErrorAborts ==
  (pc = "raised" /\ op.kind = "create" /\ err = "ProviderError" /\ ~drift) =>
    Persisted = hsnap

\* C12: a destroy that starts with status Up and whose delete_vpc is answered
\* not-found goes on to the transaction of _destroy and does not raise; when
\* such a destroy returns, the status is Missing and the vpcId is empty; when
\* it ends with a provider error, the status and the vpcId are the ones it
\* started with.
C12_DestroyNotFound ==
  /\ [](op.kind = "destroy" /\ pre.state = UP =>
          /\ pc = "done" => (state = MISSING /\ st.vpcId = 0)
          /\ (pc = "raised" /\ err = "ProviderError") =>
               (state = pre.state /\ st.vpcId = pre.st.vpcId))
  /\ [][(op.kind = "destroy" /\ pc = "d_begin" /\ state = UP /\ calls' # calls
           /\ ~Found(Connect, st.vpcId)) =>
          (pc' = "d_commit" /\ err' = "none")]_vars

C12_Witness ==
  /\ op.kind = "destroy" /\ pre.state = UP /\ pc = "done"
  /\ <<"delete_vpc", pre.st.vpcId>> \in calls /\ provErr
  /\ state = MISSING /\ st.vpcId = 0

\* the polls of the waiter before the last one all returned 'pending'
PendingBefore == \A i \in 1..(Len(polled) - 1) : polled[i] = "pending"
LastPolled == polled[Len(polled)]

PlanOf(changed) == TopoOrder(<<>>, Included(changed))

\* every handler of the plan comes after its declared predecessors in it
Respects(plan) ==
  \A i, j \in 1..Len(plan) : plan[j] \in After(plan[i]) => j < i

\* positions of the effects of the handlers other than the creation handler
LaterEffects ==
  {"dns_support", "dns_hostnames", "dns_commit", "cl_begin", "cl_commit",
   "v6_begin", "v6_wait", "v6_commit", "tag"}

C15_UpAfterAvailable ==
  /\ [][(state' = UP /\ state # UP) =>
          /\ pc = "wait_commit"
          /\ wid = st.vpcId /\ wid # 0
          /\ polled # <<>> /\ LastPolled = "available"
          /\ <<"describe_vpcs", st.vpcId>> \in calls]_vars
  /\ [][(pc = "wait" /\ pc' = "raised") => (state' = state /\ state' # UP)]_vars
  /\ []((pc = "raised" /\ err = "UnexpectedStateError") => state # UP)

C15_Witness ==
  /\ state = UP /\ pc = "next" /\ op.kind = "create"
  /\ Len(trace) > 1 /\ trace[Len(trace)] = UP
  /\ <<"describe_vpcs", st.vpcId>> \in calls

\* the configuration of this create pass is the one the persisted state holds
\* (no handler persists the tags)
ConfigUnchanged == Changed(op.cfg, pre.st) \subseteq {"tags"}

\* errors that a failure of the provider or of the process causes
ProviderFailures ==
  {"ProviderError", "NotFoundError", "UnexpectedStateError", "Crash"}

\* C16: a create pass with check=true and an unchanged configuration that
\* starts with status Up and a persisted vpcId whose VPC is gone from the
\* provider (the state an interrupted destroy leaves) ends, unless a provider
\* call fails or the process dies, with status Up and another vpcId.
C16_InterruptedDestroy ==
  (op.kind = "create" /\ op.check /\ ConfigUnchanged /\ pre.state = UP /\ pre.gone
     /\ pre.st.vpcId \in deleted /\ pc \in {"done", "raised"}) =>
    \/ pc = "raised" /\ err \in ProviderFailures
    \/ pc = "done" /\ state = UP /\ st.vpcId \notin {0, pre.st.vpcId}

\* C17: within a create pass the persisted status changes only from Missing
\* to Starting, from Starting to Up, and from Up to Missing; the step from Up
\* to Missing is taken only when recreation is allowed by the caller or after
\* the check found the VPC deleted.
C17_LifecycleMonotone ==
  [][(op'.kind = "create" /\ state' # state) =>
       \/ state = MISSING /\ state' = STARTING
       \/ state = STARTING /\ state' = UP
       \/ state = UP /\ state' = MISSING /\ (op.allow_recreate \/ drift)]_vars

C17_Witness ==
  /\ op.kind = "create" /\ pc = "done" /\ drift /\ ~op.allow_recreate
  /\ Len(trace) >= 4
  /\ SubSeq(trace, Len(trace) - 3, Len(trace)) = <<UP, MISSING, STARTING, UP>>

\* C18: in every persisted state the vpcId is set exactly when the status is
\* Starting or Up.
C18_IdentityStatus == (st.vpcId # 0) <=> (state \in {STARTING, UP})

C18_Witness ==
  /\ state = MISSING /\ st.vpcId = 0 /\ destroyed # {} /\ faults > 0
  /\ pc = "raised"

\* C19: create_vpc is answered with a new VPC only while the persisted state
\* names no VPC that the provider still holds; and a create pass with an
\* unchanged configuration that starts with status Starting and a persisted
\* vpcId issues no create_vpc and, when it returns, has status Up and the
\* vpcId it started with.
C19_NoSecondVpc ==
  /\ pc = "rc_commit" => (st.vpcId = 0 \/ vpcs[st.vpcId].State = "absent")
  /\ (op.kind = "create" /\ pre.state = STARTING /\ pre.st.vpcId # 0
        /\ ConfigUnchanged) =>
       /\ "create_vpc" \notin CallNames
       /\ pc = "done" => (state = UP /\ st.vpcId = pre.st.vpcId)

\* C20: a create pass that starts with status Up, whose changed attributes
\* all belong to handlers other than the creation handler, and that does not
\* find the VPC deleted, issues neither delete_vpc nor create_vpc, does not
\* raise RecreateRequired, and when it returns has status Up and the vpcId it
\* started with.
C20_InPlaceKeepsIdentity ==
  (op.kind = "create" /\ pre.state = UP /\ ~CreationChanged /\ ~drift) =>
    /\ CallNames \cap {"delete_vpc", "create_vpc"} = {}
    /\ err # "RecreateRequired"
    /\ pc = "done" => (state = UP /\ st.vpcId = pre.st.vpcId)

====
